---------------------------- MODULE Spec2Model ----------------------------
(***************************************************************************)
(* A model of berbalang's hello_world example (the generational loop of    *)
(* run / Epoch::evolve with its Genome operations, its Evaluator and its   *)
(* Observer), of the emulator's Profiler and Profile (From<Profiler>,      *)
(* collate, absorb, the analytics) and of the roper Evaluator with its     *)
(* fitness functions.                                                      *)
(*                                                                         *)
(* Option<T> is modelled as a sequence: None is <<>> and Some(v) is <<v>>. *)
(* A String of ASCII bytes is a sequence of character codes.               *)
(***************************************************************************)
EXTENDS Integers, Sequences, FiniteSets, Bags, TLC

(***************************************************************************)
(* Bounds of the model.                                                    *)
(***************************************************************************)
\* characters are 1..NumChars
NumChars == 2
\* largest init_len of a configuration
MaxInitLen == 2
\* largest pop_size of a configuration
MaxPop == 5
\* largest tournament_size of a configuration
MaxTournament == 5
\* largest num_offspring of a configuration
MaxOffspring == 2
\* most characters in an initial population (pop_size * init_len)
MaxGenes == 5
\* generations run by the loop of run before the model stops exploring
MaxIter == 2
\* most emulation runs whose Profilers are built
MaxRuns == 3
\* most appends the callbacks of one emulation run make
MaxAppends == 4
\* most creatures in a batch given to the roper Evaluator
MaxBatch == 2
\* most calls of the roper Evaluator
MaxEvalCalls == 3
\* most calls of evaluation::Evaluator::evaluate looked at on their own
MaxCalls == 2
\* largest window_size of a Window looked at on its own
MaxWindow == 3
\* most calls of Window::insert
MaxInserts == 6

VARIABLES
    pc,          \* where run is: "start", "loop", "evolved", "done", "panic"
    config,      \* Config
    population,  \* Epoch.population, as the bag of its genomes
    best,        \* Epoch.best : Option<Genome>
    iteration,   \* Epoch.iteration
    returned,    \* the value run returned : Option<Genome>
    panic_at,    \* the place of the panic that ended run, "" when none
    min_seen,    \* history: least fitness of all combatants evaluated : Option
    last,        \* history: what the last call of Epoch::evolve did
    batch,       \* the Profilers of the runs that finished, not yet frozen
    fresh,       \* a Profile just built by From or collate : Option<Profile>
    agg,         \* an aggregate Profile
    other,       \* a second aggregate Profile
    origin,      \* history: the Profilers behind fresh, agg and other, in order
    obs_thread,  \* the observer's thread: "none", "spawned", "running", "dead"
    log_pc,      \* one emulation run: "idle", "running", "finished", "frozen"
    profiler,    \* the Profiler of that run (its three queues and its fields)
    appended,    \* history: what its callbacks appended, queue by queue
    run_profile, \* the Profile it was frozen into : Option<Profile>
    fitness_fn,  \* roper Evaluator.fitness_fn, by name
    roper_config,\* roper Evaluator.config: its register pattern, an Option
    sketch,      \* roper Evaluator.sketch: the count of each address
    pool,        \* the creatures the caller of the roper Evaluator holds
    last_eval,   \* history: what the last call of the roper Evaluator did
    ev_worker,   \* the worker thread of evaluation::Evaluator: "running", "dead"
    ev_requests, \* the channel tx -> our_rx
    ev_responses,\* the channel our_tx -> rx
    ev_caller,   \* a call of evaluate: "idle", "sent", "returned", "panic"
    ev_call,     \* history: the argument, the result and the worker at the call
    window,      \* the observer's Window: frame, i, window_size
    inserted,    \* history: the genomes passed to Window::insert, in order
    reports      \* history: the fitness lists of the calls of Window::report

epoch_vars == <<pc, config, population, best, iteration, returned, panic_at,
                min_seen, last, obs_thread>>
profile_vars == <<batch, fresh, agg, other, origin>>
log_vars == <<log_pc, profiler, appended, run_profile>>
roper_vars == <<fitness_fn, roper_config, sketch, pool, last_eval>>
channel_vars == <<ev_worker, ev_requests, ev_responses, ev_caller, ev_call>>
window_vars == <<window, inserted, reports>>
vars == <<epoch_vars, profile_vars, log_vars, roper_vars, channel_vars,
          window_vars>>
\* what the actions of one part leave alone
not_epoch == <<profile_vars, log_vars, roper_vars, channel_vars, window_vars>>
not_profile == <<epoch_vars, log_vars, roper_vars, channel_vars, window_vars>>
not_log == <<epoch_vars, profile_vars, roper_vars, channel_vars, window_vars>>
not_roper == <<epoch_vars, profile_vars, log_vars, channel_vars, window_vars>>
not_channel == <<epoch_vars, profile_vars, log_vars, roper_vars, window_vars>>
not_window == <<epoch_vars, profile_vars, log_vars, roper_vars, channel_vars>>

None == <<>>
Some(v) == <<v>>

Min(a, b) == IF a <= b THEN a ELSE b
Max(a, b) == IF a >= b THEN a ELSE b

(***************************************************************************)
(* Characters, strings, the target.                                        *)
(***************************************************************************)
Chars == 1..NumChars

\* the strings of exactly n characters
RECURSIVE StringsOfLen(_)
StringsOfLen(n) ==
    IF n = 0 THEN {<<>>}
    ELSE {<<c>> \o s : c \in Chars, s \in StringsOfLen(n - 1)}

\* Config.target of the configurations explored
Target == <<1, 2>>

\* the targets a Config is drawn with: Target, and a one-character target
\* that the one-character genomes of Genome::new(1) differ in their
\* distance to
Targets == {Target, <<1>>}

\* distance::levenshtein(a, b): the edit distance of two strings
RECURSIVE levenshtein(_, _)
levenshtein(a, b) ==
    IF Len(a) = 0 THEN Len(b)
    ELSE IF Len(b) = 0 THEN Len(a)
    ELSE LET cost == IF Head(a) = Head(b) THEN 0 ELSE 1
         IN  Min(Min(levenshtein(Tail(a), b) + 1,
                     levenshtein(a, Tail(b)) + 1),
                 levenshtein(Tail(a), Tail(b)) + cost)

(***************************************************************************)
(* Config.                                                                 *)
(***************************************************************************)
\* ObserverConfig.window_size of the configurations explored: 0, its
\* Default, which Window::new refuses, and a size it accepts
ObserverWindows == {0, 1}

\* the configurations explored.  mut_rate is not a field: it is taken
\* strictly between 0 and 1, so that each child may or may not mutate.
Configs ==
    {cfg \in [tournament_size : 0..MaxTournament,
              num_offspring   : 0..MaxOffspring,
              pop_size        : 0..MaxPop,
              init_len        : 0..MaxInitLen,
              target          : Targets,
              observer        : [window_size : ObserverWindows]] :
        cfg.pop_size * cfg.init_len <= MaxGenes}

\* Config::assert_invariants: the condition it asserts
assert_invariants(cfg) == cfg.tournament_size >= cfg.num_offspring + 2

(***************************************************************************)
(* Genome.                                                                 *)
(***************************************************************************)
\* Genome::new(len): a random string of len characters, no fitness
GenomeNew(len) == {[genes |-> s, fitness |-> None] : s \in StringsOfLen(len)}

\* fitter_than with the comparison made non-strict
fitter_than_or_equal(a, b) ==
    /\ a.fitness # None
    /\ b.fitness # None
    /\ a.fitness[1] <= b.fitness[1]

\* Genome::fitter_than
fitter_than(a, b) ==
    /\ a.fitness # None
    /\ b.fitness # None
    /\ a.fitness[1] < b.fitness[1]

\* crossover with the children keeping their parents' cached fitness
crossover_keeps_fitness(self, mate, split_m, split_f) ==
    LET m1 == SubSeq(self.genes, 1, split_m)
        m2 == SubSeq(self.genes, split_m + 1, Len(self.genes))
        f1 == SubSeq(mate.genes, 1, split_f)
        f2 == SubSeq(mate.genes, split_f + 1, Len(mate.genes))
    IN  << [genes |-> m1 \o f2, fitness |-> self.fitness],
           [genes |-> m2 \o f1, fitness |-> mate.fitness] >>

\* crossover with the second child taking the tail of the mate twice
crossover_tail_twice(self, mate, split_m, split_f) ==
    LET m1 == SubSeq(self.genes, 1, split_m)
        m2 == SubSeq(self.genes, split_m + 1, Len(self.genes))
        f2 == SubSeq(mate.genes, split_f + 1, Len(mate.genes))
    IN  << [genes |-> m1 \o f2, fitness |-> None],
           [genes |-> m2 \o f2, fitness |-> None] >>

\* crossover with the second child made of the two heads
crossover_heads(self, mate, split_m, split_f) ==
    LET m1 == SubSeq(self.genes, 1, split_m)
        f1 == SubSeq(mate.genes, 1, split_f)
        f2 == SubSeq(mate.genes, split_f + 1, Len(mate.genes))
    IN  << [genes |-> m1 \o f2, fitness |-> None],
           [genes |-> m1 \o f1, fitness |-> None] >>

\* Genotype::crossover with the two random split points drawn
crossover(self, mate, split_m, split_f) ==
    LET m1 == SubSeq(self.genes, 1, split_m)
        m2 == SubSeq(self.genes, split_m + 1, Len(self.genes))
        f1 == SubSeq(mate.genes, 1, split_f)
        f2 == SubSeq(mate.genes, split_f + 1, Len(mate.genes))
    IN  << [genes |-> m1 \o f2, fitness |-> None],
           [genes |-> m2 \o f1, fitness |-> None] >>

\* Genotype::mutate with the random index i (0-based) and the byte c drawn
mutate(self, i, c) ==
    [self EXCEPT !.genes = [self.genes EXCEPT ![i + 1] = c]]

\* the random draws of Genome::mate for one child: <<>> when
\* rng.gen::<f32>() >= mut_rate, else <<i, c>> for the mutation of byte i to c
MutationsOf(child) ==
    {<<>>} \cup {<<i, c>> : i \in 0..(Len(child.genes) - 1), c \in Chars}

\* the body of the for loop of Genome::mate for one child
MaybeMutate(child, mu) ==
    IF mu = <<>> THEN child ELSE mutate(child, mu[1], mu[2])

\* ScoreMut::score_mut: the genome it leaves and the fitness it returns
score_mut(self, params) ==
    LET scored == IF self.fitness = None
                  THEN [self EXCEPT
                          !.fitness = Some(levenshtein(self.genes, params.target))]
                  ELSE self
    IN  [genome |-> scored, fitness |-> scored.fitness[1]]

\* a mate that scores each child before it mutates it
mate_scores_then_mutates(self, other_, split_m, split_f, mu1, mu2) ==
    LET offspring == crossover(self, other_, split_m, split_f)
        scored == [k \in 1..2 |->
                     [offspring[k] EXCEPT
                        !.fitness = Some(levenshtein(offspring[k].genes, Target))]]
    IN  << MaybeMutate(scored[1], mu1), MaybeMutate(scored[2], mu2) >>

\* Genome::mate with all its random draws given
mate(self, other_, split_m, split_f, mu1, mu2) ==
    LET offspring == crossover(self, other_, split_m, split_f)
    IN  << MaybeMutate(offspring[1], mu1), MaybeMutate(offspring[2], mu2) >>


(***************************************************************************)
(* evaluation::Evaluator.                                                  *)
(***************************************************************************)
\* the body of the worker's loop in Evaluator::spawn, which
\* Evaluator::evaluate sends the genome to and receives it back from
evaluate(genome, target) ==
    IF genome.fitness = None
    THEN [genome EXCEPT !.fitness = Some(levenshtein(genome.genes, target))]
    ELSE genome

(***************************************************************************)
(* Epoch.                                                                  *)
(***************************************************************************)
\* the bag of the elements of a sequence
SeqToBag(s) ==
    LET elems == {s[i] : i \in DOMAIN s}
    IN  [e \in elems |-> Cardinality({i \in DOMAIN s : s[i] = e})]

\* the populations Epoch::new can build: pop_size genomes of Genome::new
RECURSIVE EpochNew(_, _)
EpochNew(init_len, pop_size) ==
    IF pop_size = 0 THEN {EmptyBag}
    ELSE {b (+) SetToBag({g}) :
            b \in EpochNew(init_len, pop_size - 1), g \in GenomeNew(init_len)}

\* population.shuffle followed by up to k population.pop(): every ordered
\* draw without replacement, with what is left of the population
RECURSIVE Draws(_, _)
Draws(pop, k) ==
    IF k = 0 \/ BagToSet(pop) = {}
    THEN {[drawn |-> <<>>, rest |-> pop]}
    ELSE UNION {{[drawn |-> <<g>> \o d.drawn, rest |-> d.rest] :
                    d \in Draws(pop (-) SetToBag({g}), k - 1)} :
                g \in BagToSet(pop)}

\* Option<Fitness> as the key of the ordering of Option: None < Some(_)
FitnessKey(g) == IF g.fitness = None THEN -1 ELSE g.fitness[1]

\* one insertion of the stable sort: after every element not greater
InsertByFitness(sorted, g) ==
    LET k == Cardinality({i \in DOMAIN sorted :
                            FitnessKey(sorted[i]) <= FitnessKey(g)})
    IN  SubSeq(sorted, 1, k) \o <<g>> \o SubSeq(sorted, k + 1, Len(sorted))

\* combatants left in the order they were drawn
SortByFitness_unsorted(s) == s

\* combatants.sort_by(|a, b| a.fitness.cmp(&b.fitness)), a stable sort
RECURSIVE SortByFitness(_)
SortByFitness(s) ==
    IF s = <<>> THEN <<>>
    ELSE InsertByFitness(SortByFitness(SubSeq(s, 1, Len(s) - 1)), s[Len(s)])

\* Epoch::update_best: the new value of self.best
update_best(cur, champ) ==
    IF cur # None /\ fitter_than(champ, cur[1]) THEN Some(champ)
    ELSE IF cur = None THEN Some(champ)
    ELSE cur

\* NumBystanders counting one parent only
NumBystanders_one_parent(cfg, wraps) ==
    IF cfg.tournament_size >= cfg.num_offspring + 1
    THEN Some(cfg.tournament_size - (cfg.num_offspring + 1))
    ELSE IF wraps
    THEN Some(2147483647 - (cfg.num_offspring + 1 - cfg.tournament_size) + 1)
    ELSE None

\* tournament_size - (num_offspring + 2) in usize.  When it underflows, a
\* build with overflow checks panics (<<>>) and a build without them wraps
\* to a value near usize::MAX, which stands here as TLC's largest integer
\* less the deficit: the loop it bounds only pops, so all that matters is
\* that it exceeds every vector length.
NumBystanders(cfg, wraps) ==
    IF cfg.tournament_size >= cfg.num_offspring + 2
    THEN Some(cfg.tournament_size - (cfg.num_offspring + 2))
    ELSE IF wraps
    THEN Some(2147483647 - (cfg.num_offspring + 2 - cfg.tournament_size) + 1)
    ELSE None

\* the elements of s in reverse order
Reverse(s) == [i \in 1..Len(s) |-> s[Len(s) + 1 - i]]

\* Epoch::evolve from the evaluation of the drawn combatants to the choice
\* of the parents: what each step leaves, and the panic that stops it
Tournament(cfg, cur_best, drawn, wraps) ==
    LET scored     == [i \in 1..Len(drawn) |-> evaluate(drawn[i], cfg.target)]
        combatants == SortByFitness(scored)
        n          == Len(combatants)
        kept       == Max(n - cfg.num_offspring, 0)
        survivors  == SubSeq(combatants, 1, kept)
        count      == NumBystanders(cfg, wraps)
        requeued   == IF count = None THEN 0 ELSE Min(count[1], kept)
        breeders   == SubSeq(survivors, 1, kept - requeued)
        nb         == Len(breeders)
        where      == IF n = 0 THEN "combatants[0]"
                      ELSE IF count = None THEN "bystanders"
                      ELSE IF nb = 0 THEN "mother"
                      ELSE IF nb = 1 THEN "father"
                      ELSE IF Len(breeders[nb].genes) = 0
                              \/ Len(breeders[nb - 1].genes) = 0
                      THEN "crossover"
                      ELSE ""
    IN  [panic      |-> where,
         rest       |-> EmptyBag,
         combatants |-> combatants,
         best       |-> IF n = 0 THEN cur_best
                        ELSE update_best(cur_best, combatants[1]),
         culled     |-> Reverse(SubSeq(combatants, kept + 1, n)),
         bystanders |-> IF where \in {"combatants[0]", "bystanders"} THEN <<>>
                        ELSE Reverse(SubSeq(survivors, kept - requeued + 1, kept)),
         parents    |-> IF where \in {"", "crossover"}
                        THEN <<breeders[nb], breeders[nb - 1]>>
                        ELSE <<>>]

\* the least of an Option and the fitnesses of a sequence of genomes
MinSeen(cur, combatants) ==
    LET fs == {combatants[i].fitness[1] : i \in DOMAIN combatants}
              \cup (IF cur = None THEN {} ELSE {cur[1]})
    IN  IF fs = {} THEN None
        ELSE Some(CHOOSE f \in fs : \A g \in fs : f <= g)

NoCall ==
    [called |-> FALSE, pop_in |-> 0, combatants |-> <<>>, culled |-> <<>>, bystanders |-> <<>>,
     parents |-> <<>>, offspring |-> <<>>]

(***************************************************************************)
(* emulator::profiler: Profiler, Profile.                                  *)
(***************************************************************************)
\* Block values (those of test_collate) and MemLogEntry values
Block(entry, size) == [entry |-> entry, size |-> size]
MemLogEntry(pc_, address, n, value) ==
    [program_counter |-> pc_, address |-> address,
     num_bytes_written |-> n, value |-> value]

\* the logs of the finished runs the model draws from: two paths, with or
\* without a CPU fault, and either nothing else recorded or gadgets (one
\* hit twice), writes, registers read and time spent
Profilers ==
    {[block_log      |-> path,
      gadget_log     |-> IF busy THEN <<20, 10, 20>> ELSE <<>>,
      written_memory |-> <<>>,
      write_log      |-> IF busy
                         THEN <<MemLogEntry(1, 100, 2, 7), MemLogEntry(3, 101, 4, 9)>>
                         ELSE <<>>,
      cpu_error      |-> err,
      emulation_time |-> IF busy THEN 5 ELSE 0,
      registers      |-> IF busy THEN <<"RAX", 7>> ELSE <<>>] :
        path \in {<<Block(1, 2), Block(3, 4)>>, <<Block(1, 2), Block(6, 6)>>},
        err \in {None, Some("MEM_UNMAPPED")},
        busy \in BOOLEAN}

\* RegisterState::new(&registers, Some(&written_memory)): the register
\* snapshot of one run, kept as the pair it is built from
RegisterStateNew(registers, written_memory) ==
    [registers |-> registers, memory |-> written_memory]

\* a drain that returns what it popped last first
RECURSIVE segqueue_to_vec_lifo(_)
segqueue_to_vec_lifo(sq) ==
    IF sq = <<>> THEN <<>>
    ELSE segqueue_to_vec_lifo(Tail(sq)) \o <<Head(sq)>>

\* segqueue_to_vec: pops the queue from its front until it is empty
RECURSIVE segqueue_to_vec(_)
segqueue_to_vec(sq) ==
    IF sq = <<>> THEN <<>>
    ELSE <<Head(sq)>> \o segqueue_to_vec(Tail(sq))

\* the HashSet the loop over gadget_log.pop() fills
RECURSIVE Executed(_)
Executed(gadget_log) ==
    IF gadget_log = <<>> THEN {}
    ELSE {Head(gadget_log)} \cup Executed(Tail(gadget_log))

\* Profile::default(), as derived
ProfileDefault ==
    [paths            |-> <<>>,
     cpu_errors       |-> <<>>,
     emulation_times  |-> <<>>,
     registers        |-> <<>>,
     gadgets_executed |-> <<>>,
     writeable_memory |-> <<>>,
     write_logs       |-> <<>>,
     executable       |-> FALSE]

\* the pushes made for one Profiler by From<Profiler> and by collate
PushRun(acc, p) ==
    [acc EXCEPT
       !.paths            = Append(@, segqueue_to_vec(p.block_log)),
       !.gadgets_executed = Append(@, Executed(p.gadget_log)),
       !.cpu_errors       = Append(@, p.cpu_error),
       !.emulation_times  = Append(@, p.emulation_time),
       !.registers        = Append(@, RegisterStateNew(p.registers, p.written_memory)),
       !.write_logs       = Append(@, segqueue_to_vec(p.write_log))]

\* the empty vectors From<Profiler> and collate start from, with the
\* executable flag they return
NoRuns == [ProfileDefault EXCEPT !.executable = TRUE]

\* From<Profiler<C>> for Profile
ProfileFrom(p) == PushRun(NoRuns, p)

\* a collate that leaves out the runs that ended on a CPU fault
RECURSIVE collate_drops_faulted(_)
collate_drops_faulted(profilers) ==
    IF profilers = <<>> THEN NoRuns
    ELSE IF profilers[Len(profilers)].cpu_error # None
    THEN collate_drops_faulted(SubSeq(profilers, 1, Len(profilers) - 1))
    ELSE PushRun(collate_drops_faulted(SubSeq(profilers, 1, Len(profilers) - 1)),
                 profilers[Len(profilers)])

\* Profile::collate: the for loop over the profilers
RECURSIVE collate(_)
collate(profilers) ==
    IF profilers = <<>> THEN NoRuns
    ELSE PushRun(collate(SubSeq(profilers, 1, Len(profilers) - 1)),
                 profilers[Len(profilers)])

\* absorb putting the other's runs before its own
absorb_prepends(self, other_) ==
    [paths            |-> other_.paths \o self.paths,
     cpu_errors       |-> other_.cpu_errors \o self.cpu_errors,
     emulation_times  |-> other_.emulation_times \o self.emulation_times,
     registers        |-> other_.registers \o self.registers,
     gadgets_executed |-> other_.gadgets_executed \o self.gadgets_executed,
     writeable_memory |-> other_.writeable_memory \o self.writeable_memory,
     write_logs       |-> other_.write_logs \o self.write_logs,
     executable       |-> self.executable /\ other_.executable]

\* absorb leaving emulation_times as it was
absorb_skips_times(self, other_) ==
    [paths            |-> self.paths \o other_.paths,
     cpu_errors       |-> self.cpu_errors \o other_.cpu_errors,
     emulation_times  |-> self.emulation_times,
     registers        |-> self.registers \o other_.registers,
     gadgets_executed |-> self.gadgets_executed \o other_.gadgets_executed,
     writeable_memory |-> self.writeable_memory \o other_.writeable_memory,
     write_logs       |-> self.write_logs \o other_.write_logs,
     executable       |-> self.executable /\ other_.executable]

\* Profile::absorb: the new value of self
absorb(self, other_) ==
    [paths            |-> self.paths \o other_.paths,
     cpu_errors       |-> self.cpu_errors \o other_.cpu_errors,
     emulation_times  |-> self.emulation_times \o other_.emulation_times,
     registers        |-> self.registers \o other_.registers,
     gadgets_executed |-> self.gadgets_executed \o other_.gadgets_executed,
     writeable_memory |-> self.writeable_memory \o other_.writeable_memory,
     write_logs       |-> self.write_logs \o other_.write_logs,
     executable       |-> self.executable /\ other_.executable]

\* loader::get_static_memory_image(): the segments of the loaded image.
\* The emulation's write hook logs the writes made into writeable segments.
StaticMemoryImage ==
    {[aligned_start |-> 0,   size |-> 16, writeable |-> FALSE, executable |-> TRUE],
     [aligned_start |-> 100, size |-> 6,  writeable |-> TRUE,  executable |-> FALSE],
     [aligned_start |-> 120, size |-> 2,  writeable |-> TRUE,  executable |-> FALSE]}

RECURSIVE SumSizes(_)
SumSizes(segs) ==
    IF segs = {} THEN 0
    ELSE LET seg == CHOOSE x \in segs : TRUE
         IN  seg.size + SumSizes(segs \ {seg})

\* MemoryImage::size_of_writeable_memory
size_of_writeable_memory ==
    SumSizes({seg \in StaticMemoryImage : seg.writeable})

\* MemoryImage::size_of_executable_memory
size_of_executable_memory ==
    SumSizes({seg \in StaticMemoryImage : seg.executable})

\* self.write_logs.iter().flatten()
RECURSIVE Flatten(_)
Flatten(logs) ==
    IF logs = <<>> THEN <<>> ELSE Head(logs) \o Flatten(Tail(logs))

\* a set of written addresses that holds the first byte of each write only
addresses_written_to_first(self) ==
    {Flatten(self.write_logs)[j].address : j \in DOMAIN Flatten(self.write_logs)}

\* Profile::addresses_written_to
addresses_written_to(self) ==
    LET entries == Flatten(self.write_logs)
    IN  UNION {{entries[j].address + i :
                    i \in 0..(entries[j].num_bytes_written - 1)} :
               j \in DOMAIN entries}

\* Profile::mem_write_ratio: the quotient of two f64, kept as its two terms;
\* no writeable byte makes it NaN (0/0) or infinite
mem_write_ratio(self) ==
    LET bytes_written == Cardinality(addresses_written_to(self))
    IN  IF size_of_writeable_memory = 0
        THEN [num |-> bytes_written, den |-> 0,
              value |-> IF bytes_written = 0 THEN "NaN" ELSE "inf"]
        ELSE [num |-> bytes_written, den |-> size_of_writeable_memory,
              value |-> "finite"]

\* self.emulation_times.iter().sum::<Duration>()
RECURSIVE SumDurations(_)
SumDurations(times) ==
    IF times = <<>> THEN 0 ELSE Head(times) + SumDurations(Tail(times))

\* Profile::avg_emulation_micros: the quotient of two f64, kept as its two
\* terms; over no run it is 0.0 / 0.0, which is NaN, and is returned
avg_emulation_micros(self) ==
    IF Len(self.emulation_times) = 0
    THEN [outcome |-> "returned", value |-> "NaN"]
    ELSE [outcome |-> "returned",
          value   |-> [num |-> SumDurations(self.emulation_times),
                       den |-> Len(self.emulation_times)]]

NoOrigin == [fresh |-> <<>>, agg |-> <<>>, other |-> <<>>]

\* the profiles while run is modelled: none is built
ProfilesIdle ==
    /\ batch = <<>>
    /\ fresh = None
    /\ agg = ProfileDefault
    /\ other = ProfileDefault
    /\ origin = NoOrigin

\* no emulation run is being logged
LogIdle ==
    /\ log_pc = "idle"
    /\ profiler = None
    /\ appended = None
    /\ run_profile = None

\* no roper Evaluator was spawned
RoperIdle ==
    /\ fitness_fn = ""
    /\ roper_config = None
    /\ sketch = <<>>
    /\ pool = <<>>
    /\ last_eval = None

\* no evaluation::Evaluator is looked at on its own
ChannelIdle ==
    /\ ev_worker = "none"
    /\ ev_requests = <<>>
    /\ ev_responses = <<>>
    /\ ev_caller = "idle"
    /\ ev_call = None

\* no Window is looked at on its own
WindowIdle ==
    /\ window = None
    /\ inserted = <<>>
    /\ reports = <<>>

(***************************************************************************)
(* run.                                                                    *)
(***************************************************************************)
Init ==
    /\ pc = "start"
    /\ config \in Configs
    /\ population = EmptyBag
    /\ best = None
    /\ iteration = 0
    /\ returned = None
    /\ panic_at = ""
    /\ min_seen = None
    /\ last = NoCall
    /\ obs_thread = "none"
    /\ ProfilesIdle
    /\ LogIdle
    /\ RoperIdle
    /\ ChannelIdle
    /\ WindowIdle

\* run up to its loop: Epoch::new, Observer::spawn, Evaluator::spawn
RunStart ==
    /\ pc = "start"
    /\ population' \in EpochNew(config.init_len, config.pop_size)
    /\ obs_thread' = "spawned"
    /\ pc' = "loop"
    /\ UNCHANGED <<config, best, iteration, returned, panic_at, min_seen, last>>
    /\ UNCHANGED not_epoch

\* the observer's thread starts running: Window::new(window_size), whose
\* assert ends the thread, and drops its receiver, when window_size is 0.
\* What the thread then does with what it receives stays inside its Window.
ObserverStarts ==
    /\ obs_thread = "spawned"
    /\ obs_thread' = IF config.observer.window_size > 0 THEN "running" ELSE "dead"
    /\ UNCHANGED <<pc, config, population, best, iteration, returned, panic_at,
                   min_seen, last>>
    /\ UNCHANGED not_epoch

\* the states of the observer's thread once spawned
ObserverThreads == {"spawned", "running", "dead"}

\* Observer::observe: self.tx.send(ob), which fails when the receiver is gone
observe(thread, ob) == IF thread = "dead" THEN "Err" ELSE "Ok"

\* an evolve that panics when an observation could not be sent
Observed_or_panic(t, thread) ==
    IF \E i \in DOMAIN t.combatants : observe(thread, t.combatants[i]) = "Err"
    THEN [t EXCEPT !.panic = "observe"]
    ELSE t

\* observer.observe(scored.clone()); in evolve: the Result of every send is
\* dropped, so the tournament goes on as it would have
Observed(t, thread) ==
    IF \E i \in DOMAIN t.combatants : observe(thread, t.combatants[i]) = "Err"
    THEN t
    ELSE t

\* the outcomes of the tournament of one call of Epoch::evolve: one for
\* every shuffle and, where the subtraction underflows, each build
Tournaments(cfg, cur_best, pop) ==
    {[Tournament(cfg, cur_best, d.drawn, wraps) EXCEPT !.rest = d.rest] :
        d \in Draws(pop, cfg.tournament_size),
        wraps \in (IF assert_invariants(cfg) THEN {FALSE} ELSE BOOLEAN)}

\* the offspring Genome::mate can return: one for every random draw
Matings(mother, father) ==
    UNION {LET kids == crossover(mother, father, split_m, split_f)
           IN  {mate(mother, father, split_m, split_f, mu1, mu2) :
                    mu1 \in MutationsOf(kids[1]), mu2 \in MutationsOf(kids[2])} :
           split_m \in 0..(Len(mother.genes) - 1),
           split_f \in 0..(Len(father.genes) - 1)}

\* a requeue that returns the children in place of their parents
Requeue_children_only(t, offspring) ==
    t.rest (+) SeqToBag(t.bystanders) (+) SeqToBag(offspring)

\* the population evolve returns: those not drawn, with the bystanders,
\* mother and father and their children pushed back
Requeue(t, offspring) ==
    t.rest (+) SeqToBag(t.bystanders) (+) SeqToBag(t.parents)
           (+) SeqToBag(offspring)

\* world = world.evolve(&observer, &evaluator): one call of Epoch::evolve.
\* A panic ends run; the Epoch, moved into the call, is left as it was.
Evolve ==
    /\ pc = "loop"
    /\ iteration < MaxIter
    /\ \E t \in {Observed(x, obs_thread) :
                    x \in Tournaments(config, best, population)} :
         LET rec == [called     |-> TRUE,
                     pop_in     |-> BagCardinality(population),
                     combatants |-> t.combatants,
                     culled     |-> t.culled,
                     bystanders |-> t.bystanders,
                     parents    |-> t.parents,
                     offspring  |-> <<>>]
         IN  /\ min_seen' = MinSeen(min_seen, t.combatants)
             /\ IF t.panic # ""
                THEN /\ pc' = "panic"
                     /\ panic_at' = t.panic
                     /\ last' = rec
                     /\ UNCHANGED <<population, best, iteration>>
                ELSE \E offspring \in Matings(t.parents[1], t.parents[2]) :
                         /\ population' = Requeue(t, offspring)
                         /\ best' = t.best
                         /\ iteration' = iteration + 1
                         /\ last' = [rec EXCEPT !.offspring = offspring]
                         /\ pc' = "evolved"
                         /\ panic_at' = panic_at
    /\ UNCHANGED <<config, returned, obs_thread>>
    /\ UNCHANGED not_epoch

\* the test of the loop of run on world.best after evolve returned
RunCheck ==
    /\ pc = "evolved"
    /\ IF best # None /\ best[1].fitness = Some(0)
       THEN /\ pc' = "done"
            /\ returned' = best
       ELSE /\ pc' = "loop"
            /\ returned' = returned
    /\ UNCHANGED <<config, population, best, iteration, panic_at, min_seen, last,
                   obs_thread>>
    /\ UNCHANGED not_epoch

Next == RunStart \/ ObserverStarts \/ Evolve \/ RunCheck

Spec == Init /\ [][Next]_vars

(***************************************************************************)
(* The aggregation of profiles: runs finish, their Profilers are frozen    *)
(* into Profiles by From or collate, and Profiles are absorbed.            *)
(***************************************************************************)
RunsBuilt ==
    Len(batch) + Len(origin.fresh) + Len(origin.agg) + Len(origin.other)

\* run is not looked at: nothing of it is built
EpochIdle ==
    /\ pc = "start"
    /\ config = [tournament_size |-> 0, num_offspring |-> 0, pop_size |-> 0,
                 init_len |-> 0, target |-> Target,
                 observer |-> [window_size |-> 0]]
    /\ population = EmptyBag
    /\ best = None
    /\ iteration = 0
    /\ returned = None
    /\ panic_at = ""
    /\ min_seen = None
    /\ last = NoCall
    /\ obs_thread = "none"

InitProfile ==
    /\ EpochIdle
    /\ LogIdle
    /\ RoperIdle
    /\ ChannelIdle
    /\ WindowIdle
    /\ batch = <<>>
    /\ fresh = None
    /\ agg \in {ProfileDefault, collate(<<>>)}
    /\ other = collate(<<>>)
    /\ origin = NoOrigin

\* an emulation run finished and left its Profiler
Emulate ==
    /\ RunsBuilt < MaxRuns
    /\ \E p \in Profilers : batch' = Append(batch, p)
    /\ UNCHANGED <<fresh, agg, other, origin>>
    /\ UNCHANGED not_profile

\* Profile::from(profiler) of the oldest Profiler waiting
FromProfiler ==
    /\ fresh = None
    /\ batch # <<>>
    /\ fresh' = Some(ProfileFrom(Head(batch)))
    /\ origin' = [origin EXCEPT !.fresh = <<Head(batch)>>]
    /\ batch' = Tail(batch)
    /\ UNCHANGED <<agg, other>>
    /\ UNCHANGED not_profile

\* Profile::collate(profilers) (also Profile::from(profilers)) of all the
\* Profilers waiting
Collate ==
    /\ fresh = None
    /\ fresh' = Some(collate(batch))
    /\ origin' = [origin EXCEPT !.fresh = batch]
    /\ batch' = <<>>
    /\ UNCHANGED <<agg, other>>
    /\ UNCHANGED not_profile

\* agg.absorb(fresh)
AbsorbFresh ==
    /\ fresh # None
    /\ agg' = absorb(agg, fresh[1])
    /\ origin' = [origin EXCEPT !.agg = @ \o origin.fresh, !.fresh = <<>>]
    /\ fresh' = None
    /\ UNCHANGED <<batch, other>>
    /\ UNCHANGED not_profile

\* other.absorb(fresh)
OtherAbsorbFresh ==
    /\ fresh # None
    /\ other' = absorb(other, fresh[1])
    /\ origin' = [origin EXCEPT !.other = @ \o origin.fresh, !.fresh = <<>>]
    /\ fresh' = None
    /\ UNCHANGED <<batch, agg>>
    /\ UNCHANGED not_profile

\* agg.absorb(other): other is moved, and the collation of no run takes
\* its place
AbsorbOther ==
    /\ origin.other # <<>>
    /\ agg' = absorb(agg, other)
    /\ origin' = [origin EXCEPT !.agg = @ \o origin.other, !.other = <<>>]
    /\ other' = collate(<<>>)
    /\ UNCHANGED <<batch, fresh>>
    /\ UNCHANGED not_profile

NextProfile ==
    \/ Emulate
    \/ FromProfiler
    \/ Collate
    \/ AbsorbFresh
    \/ OtherAbsorbFresh
    \/ AbsorbOther

SpecProfile == InitProfile /\ [][NextProfile]_vars

(***************************************************************************)
(* One emulation run and its Profiler: the callbacks of the emulation      *)
(* append to the three SegQueues, the run finishes, and the controller     *)
(* freezes the Profiler into a Profile.                                    *)
(***************************************************************************)
\* Default for Profiler, which Profiler::new fills
ProfilerDefault ==
    [block_log      |-> <<>>,
     gadget_log     |-> <<>>,
     written_memory |-> <<>>,
     write_log      |-> <<>>,
     cpu_error      |-> None,
     emulation_time |-> 0,
     registers      |-> <<>>]

\* what the callbacks of a run can append
LogBlocks == {Block(1, 2), Block(3, 4)}
LogGadgets == {10, 20}
LogWrites == {MemLogEntry(1, 100, 2, 7), MemLogEntry(3, 101, 4, 9)}

NoAppends == [blocks |-> <<>>, gadgets |-> <<>>, writes |-> <<>>]

NumAppended ==
    Len(appended.blocks) + Len(appended.gadgets) + Len(appended.writes)

\* the queue a loop of pop() leaves when pop() fails
RECURSIVE drained(_)
drained(sq) == IF sq = <<>> THEN sq ELSE drained(Tail(sq))

InitLog ==
    /\ EpochIdle
    /\ ProfilesIdle
    /\ RoperIdle
    /\ ChannelIdle
    /\ WindowIdle
    /\ log_pc = "running"
    /\ profiler = ProfilerDefault
    /\ appended = NoAppends
    /\ run_profile = None

\* a block callback: block_log.push(block)
RecordBlock ==
    /\ log_pc = "running"
    /\ NumAppended < MaxAppends
    /\ \E b \in LogBlocks :
         /\ profiler' = [profiler EXCEPT !.block_log = Append(@, b)]
         /\ appended' = [appended EXCEPT !.blocks = Append(@, b)]
    /\ UNCHANGED <<log_pc, run_profile>>
    /\ UNCHANGED not_log

\* a gadget callback: gadget_log.push(address)
RecordGadget ==
    /\ log_pc = "running"
    /\ NumAppended < MaxAppends
    /\ \E g \in LogGadgets :
         /\ profiler' = [profiler EXCEPT !.gadget_log = Append(@, g)]
         /\ appended' = [appended EXCEPT !.gadgets = Append(@, g)]
    /\ UNCHANGED <<log_pc, run_profile>>
    /\ UNCHANGED not_log

\* a memory write callback: write_log.push(entry)
RecordWrite ==
    /\ log_pc = "running"
    /\ NumAppended < MaxAppends
    /\ \E w \in LogWrites :
         /\ profiler' = [profiler EXCEPT !.write_log = Append(@, w)]
         /\ appended' = [appended EXCEPT !.writes = Append(@, w)]
    /\ UNCHANGED <<log_pc, run_profile>>
    /\ UNCHANGED not_log

\* the emulation ends: the callbacks are done, and the fields "written to
\* after the emulation has finished" are set (set_error, emulation_time)
FinishRun ==
    /\ log_pc = "running"
    /\ \E err \in {None, Some("MEM_UNMAPPED")}, t \in {0, 5} :
         profiler' = [profiler EXCEPT !.cpu_error = err, !.emulation_time = t]
    /\ log_pc' = "finished"
    /\ UNCHANGED <<appended, run_profile>>
    /\ UNCHANGED not_log

\* Profile::from(profiler): the three queues are popped until empty
Freeze ==
    /\ log_pc = "finished"
    /\ run_profile' = Some(ProfileFrom(profiler))
    /\ profiler' = [profiler EXCEPT !.block_log = drained(@),
                                    !.gadget_log = drained(@),
                                    !.write_log = drained(@)]
    /\ log_pc' = "frozen"
    /\ UNCHANGED appended
    /\ UNCHANGED not_log

NextLog ==
    \/ RecordBlock
    \/ RecordGadget
    \/ RecordWrite
    \/ FinishRun
    \/ Freeze

SpecLog == InitLog /\ [][NextLog]_vars

(***************************************************************************)
(* roper::evaluation: the fitness functions and the Evaluator.             *)
(*                                                                         *)
(* A u64 register value is the set of the positions of its one bits.  A    *)
(* Weighted fitness is the record of its scores, a quotient of two f64     *)
(* being kept as its two terms.  Creature.tag, a random number no fitness  *)
(* function reads, is left out.                                            *)
(***************************************************************************)
\* the bits of the u64 0xffff_ffff_ffff_ffff
AllOnes == 0..63

\* what the hatchery's emulation of a creature logs: its path, by chromosome
HatchPaths ==
    <<(<<Block(1, 2), Block(3, 4)>>), (<<Block(1, 2), Block(6, 6)>>)>>
HatchRegisters ==
    <<[RAX |-> {0, 1, 2}, RBX |-> {1, 2}], [RAX |-> {0, 5}, RBX |-> {5}]>>
Chromosomes == DOMAIN HatchPaths

\* Hatchery::execute(creature): the Profile of the creature's run
execute(creature) ==
    ProfileFrom([ProfilerDefault EXCEPT
                   !.block_log = HatchPaths[creature.chromosome],
                   !.registers = HatchRegisters[creature.chromosome],
                   !.write_log = IF creature.chromosome = 1
                                 THEN <<MemLogEntry(1, 100, 2, 7)>>
                                 ELSE <<>>])

\* CountMinSketch::insert, for each element of a set of addresses
SketchInsertAll(sk, addrs) == sk (+) SetToBag(addrs)
\* CountMinSketch::query
SketchQuery(sk, addr) == CopiesIn(addr, sk)

\* the addresses_visited of code_coverage_ff
AddressesVisited(profile) ==
    UNION {UNION {profile.paths[i][j].entry ..
                    (profile.paths[i][j].entry + profile.paths[i][j].size - 1) :
                  j \in DOMAIN profile.paths[i]} :
           i \in DOMAIN profile.paths}

\* the sum of the queries of a set of addresses
RECURSIVE SumQueries(_, _)
SumQueries(sk, addrs) ==
    IF addrs = {} THEN 0
    ELSE LET a == CHOOSE x \in addrs : TRUE
         IN  SketchQuery(sk, a) + SumQueries(sk, addrs \ {a})

\* code_coverage_ff: every visited address is inserted in the sketch and
\* then queried; returns the creature and the sketch it leaves
code_coverage_ff(creature, sk) ==
    IF creature.profile = None
    THEN [creature |-> creature, sketch |-> sk, panic |-> FALSE]
    ELSE LET profile == creature.profile[1]
             visited == AddressesVisited(profile)
             sk2 == SketchInsertAll(sk, visited)
             n == Cardinality(visited)
             ratio == mem_write_ratio(profile)
             fitness ==
               [code_coverage     |-> [num |-> size_of_executable_memory - n,
                                       den |-> size_of_executable_memory],
                code_frequency    |-> IF n < 1 THEN [num |-> 1, den |-> 1]
                                      ELSE [num |-> SumQueries(sk2, visited),
                                            den |-> n],
                gadgets_executed  |-> Len(profile.gadgets_executed),
                mem_ratio_written |-> [num |-> ratio.den - ratio.num,
                                       den |-> ratio.den]]
         IN  [creature |-> [creature EXCEPT !.fitness = Some(fitness)],
              sketch   |-> sk2,
              panic    |-> FALSE]

\* the fold of & over the registers of a register state, from all ones
RECURSIVE Conjunction(_, _)
Conjunction(regs, names) ==
    IF names = {} THEN AllOnes
    ELSE LET r == CHOOSE x \in names : TRUE
         IN  regs[r] \cap Conjunction(regs, names \ {r})

\* register_conjunction_ff: the sketch is not used
register_conjunction_ff(creature, sk) ==
    IF creature.profile = None
    THEN [creature |-> creature, sketch |-> sk, panic |-> FALSE]
    ELSE LET profile == creature.profile[1]
         IN  IF profile.registers = <<>>
             THEN [creature |-> creature, sketch |-> sk, panic |-> FALSE]
             ELSE LET registers == profile.registers[Len(profile.registers)].registers
                      conj == Conjunction(registers, DOMAIN registers)
                      ratio == mem_write_ratio(profile)
                      fitness ==
                        [zeroes            |-> Cardinality(AllOnes \ conj),
                         gadgets_executed  |-> Len(profile.gadgets_executed),
                         mem_ratio_written |-> [num |-> ratio.num,
                                                den |-> ratio.den]]
                  IN  [creature |-> [creature EXCEPT !.fitness = Some(fitness)],
                       sketch   |-> sk,
                       panic    |-> FALSE]

\* the register patterns a roper Config is drawn with: none, or one over RAX
RegisterPatterns == {None, Some([RAX |-> {0, 1, 2}])}
RoperConfigs == [register_pattern : RegisterPatterns]

\* RegisterPattern::distance_from_register_state: the bits in which the
\* registers of the pattern differ from those of the state, summed
RECURSIVE distance_from_register_state(_, _, _)
distance_from_register_state(pattern, state, names) ==
    IF names = {} THEN 0
    ELSE LET r == CHOOSE x \in names : TRUE
             differing == (pattern[r] \ state.registers[r])
                            \cup (state.registers[r] \ pattern[r])
         IN  Cardinality(differing)
               + distance_from_register_state(pattern, state, names \ {r})

\* the number of runs of a profile that ended on a CPU fault
Crashes(profile) ==
    Cardinality({i \in DOMAIN profile.cpu_errors : profile.cpu_errors[i] # None})

\* register_pattern_ff: the sketch is not used.  Without a register
\* pattern in the configuration an error is logged and the creature is
\* returned as it came; profile.registers[0] panics when the profile
\* holds no register state.
register_pattern_ff(creature, sk, cfg) ==
    IF creature.profile = None
    THEN [creature |-> creature, sketch |-> sk, panic |-> FALSE]
    ELSE LET profile == creature.profile[1]
         IN  IF cfg.register_pattern = None
             THEN [creature |-> creature, sketch |-> sk, panic |-> FALSE]
             ELSE IF profile.registers = <<>>
             THEN [creature |-> creature, sketch |-> sk, panic |-> TRUE]
             ELSE LET pattern == cfg.register_pattern[1]
                      ratio == mem_write_ratio(profile)
                      fitness ==
                        [register_error    |->
                            distance_from_register_state(
                                pattern, profile.registers[1], DOMAIN pattern),
                         mem_ratio_written |-> [num |-> ratio.den - ratio.num,
                                                den |-> ratio.den],
                         crash_count       |-> Crashes(profile),
                         gadgets_executed  |-> Len(profile.gadgets_executed)]
                  IN  [creature |-> [creature EXCEPT !.fitness = Some(fitness)],
                       sketch   |-> sk,
                       panic    |-> FALSE]

\* the fitness functions an Evaluator is spawned with
FitnessFns == {"code_coverage_ff", "register_pattern_ff", "register_conjunction_ff"}

\* (self.fitness_fn)(creature, &mut self.sketch, self.config.clone()): the
\* creature and the sketch it leaves, or the panic that ends the call
ApplyFitnessFn(fn, creature, sk, cfg) ==
    IF fn = "code_coverage_ff" THEN code_coverage_ff(creature, sk)
    ELSE IF fn = "register_pattern_ff" THEN register_pattern_ff(creature, sk, cfg)
    ELSE register_conjunction_ff(creature, sk)

\* Creature::record_genetic_frequency, for each creature of a batch in turn
RECURSIVE RecordAll(_, _)
RecordAll(creatures, sk) ==
    IF creatures = <<>> THEN sk
    ELSE RecordAll(Tail(creatures),
                   SketchInsertAll(sk, AddressesVisited(Head(creatures).profile[1])))

\* .map(|creature| (self.fitness_fn)(creature, &mut self.sketch, ..)): the
\* creatures scored one after the other, each with the sketch the ones
\* before it left; seen is the sketch each was handed.  A panic of the
\* fitness function ends the iteration.
RECURSIVE ScoreAll(_, _, _, _)
\* what the iteration gives once its first creature came back as r
ScoreRest(fn, creatures, sk, cfg, r) ==
    IF r.panic
    THEN [batch |-> <<>>, sketch |-> r.sketch, seen |-> <<sk>>, panic |-> TRUE]
    ELSE [ScoreAll(fn, creatures, r.sketch, cfg) EXCEPT
            !.batch = <<r.creature>> \o @,
            !.seen  = <<sk>> \o @]
ScoreAll(fn, creatures, sk, cfg) ==
    IF creatures = <<>>
    THEN [batch |-> <<>>, sketch |-> sk, seen |-> <<>>, panic |-> FALSE]
    ELSE ScoreRest(fn, Tail(creatures), sk, cfg,
                   ApplyFitnessFn(fn, Head(creatures), sk, cfg))

\* Evaluator::evaluate: the creature is executed, whatever it carries
roper_evaluate(fn, sk, creature, cfg) ==
    LET profile == execute(creature)
        r == ApplyFitnessFn(fn, [creature EXCEPT !.profile = Some(profile)],
                            sk, cfg)
    IN  [batch    |-> IF r.panic THEN <<>> ELSE <<r.creature>>,
         sketch   |-> r.sketch,
         executed |-> <<creature>>,
         seen     |-> <<sk>>,
         panic    |-> r.panic]

\* the orders in which Hatchery::execute_batch can hand back n runs
Orders(n) == {p \in [1..n -> 1..n] : \A i, j \in 1..n : p[i] = p[j] => i = j}

\* batch.iter_mut().for_each(|c| c.record_genetic_frequency(..)) on the
\* batch that was scored, which a panic of the fitness function left unmade
Recorded(scored, executed) ==
    [batch    |-> scored.batch,
     sketch   |-> IF scored.panic THEN scored.sketch
                  ELSE RecordAll(scored.batch, scored.sketch),
     executed |-> executed,
     seen     |-> scored.seen,
     panic    |-> scored.panic]

\* Evaluator::eval_pipeline, the runs of execute_batch coming back in the
\* order p
eval_pipeline(fn, sk, inbound, p, cfg) ==
    LET old_meat == SelectSeq(inbound, LAMBDA c : c.profile # None)
        fresh_meat == SelectSeq(inbound, LAMBDA c : c.profile = None)
        hatched == [i \in 1..Len(fresh_meat) |->
                       [fresh_meat[p[i]] EXCEPT
                          !.profile = Some(execute(fresh_meat[p[i]]))]]
    IN  Recorded(ScoreAll(fn, hatched \o old_meat, sk, cfg), fresh_meat)

\* the profiles a creature handed to the Evaluator can carry: none, or the
\* Profile of no runs (Profile::from of an empty Vec of Profilers)
InboundProfiles == {None, Some(collate(<<>>))}

NoEval ==
    [n |-> 0, call |-> "", inbound |-> <<>>, executed |-> <<>>,
     outbound |-> <<>>, sketch_before |-> EmptyBag, seen |-> <<>>,
     panicked |-> FALSE]

\* Evaluator::spawn with one of the fitness functions, and the creatures
\* its caller holds, none evaluated yet
InitRoper ==
    /\ EpochIdle
    /\ ProfilesIdle
    /\ LogIdle
    /\ ChannelIdle
    /\ WindowIdle
    /\ fitness_fn \in FitnessFns
    /\ roper_config \in RoperConfigs
    /\ sketch = EmptyBag
    /\ \E n \in 1..MaxBatch :
         \E chromosomes \in [1..n -> Chromosomes],
            profiles \in [1..n -> InboundProfiles] :
             pool = [i \in 1..n |-> [id |-> i, chromosome |-> chromosomes[i],
                                     profile |-> profiles[i], fitness |-> None]]
    /\ last_eval = NoEval

\* evaluator.evaluate(creature) on one of the creatures held
Evaluate ==
    /\ last_eval.n < MaxEvalCalls
    /\ ~last_eval.panicked
    /\ \E i \in DOMAIN pool :
         LET r == roper_evaluate(fitness_fn, sketch, pool[i], roper_config)
         IN  /\ pool' = IF r.panic THEN <<>>
                        ELSE [pool EXCEPT ![i] = r.batch[1]]
             /\ sketch' = r.sketch
             /\ last_eval' = [n |-> last_eval.n + 1, call |-> "evaluate",
                              inbound |-> <<pool[i]>>, executed |-> r.executed,
                              outbound |-> r.batch, sketch_before |-> sketch,
                              seen |-> r.seen, panicked |-> r.panic]
    /\ UNCHANGED <<fitness_fn, roper_config>>
    /\ UNCHANGED not_roper

\* evaluator.eval_pipeline(creatures) on the creatures held
EvalPipeline ==
    /\ last_eval.n < MaxEvalCalls
    /\ ~last_eval.panicked
    /\ \E p \in Orders(Len(SelectSeq(pool, LAMBDA c : c.profile = None))) :
         LET r == eval_pipeline(fitness_fn, sketch, pool, p, roper_config)
         IN  /\ pool' = r.batch
             /\ sketch' = r.sketch
             /\ last_eval' = [n |-> last_eval.n + 1, call |-> "eval_pipeline",
                              inbound |-> pool, executed |-> r.executed,
                              outbound |-> r.batch, sketch_before |-> sketch,
                              seen |-> r.seen, panicked |-> r.panic]
    /\ UNCHANGED <<fitness_fn, roper_config>>
    /\ UNCHANGED not_roper

NextRoper == Evaluate \/ EvalPipeline

SpecRoper == InitRoper /\ [][NextRoper]_vars

(***************************************************************************)
(* evaluation::Evaluator of hello_world: the caller of evaluate, the       *)
(* worker thread and the two channels between them.  The worker thread     *)
(* ends early only by a panic in its body; its receiver our_rx and its     *)
(* sender our_tx are dropped with it.                                      *)
(***************************************************************************)
\* the genomes evaluate is called with: scored earlier or not
ArgGenomes ==
    {[genes |-> g, fitness |-> f] :
        g \in UNION {StringsOfLen(n) : n \in 0..MaxInitLen},
        f \in {None, Some(0), Some(1)}}

NoEvCall == [n |-> 0, arg |-> None, result |-> None, dead_at_call |-> FALSE]

\* a send that, finding the worker gone, hands the genome back as it is
evaluate_send_or_default(worker, requests, genome) ==
    IF worker = "running"
    THEN [caller |-> "sent", requests |-> Append(requests, genome),
          result |-> None]
    ELSE [caller |-> "returned", requests |-> requests,
          result |-> Some(genome)]

\* self.tx.send(genome).expect("tx failure"): the send fails when the
\* receiver was dropped, and expect panics
evaluate_send(worker, requests, genome) ==
    IF worker = "running"
    THEN [caller |-> "sent", requests |-> Append(requests, genome),
          result |-> None]
    ELSE [caller |-> "panic", requests |-> requests, result |-> None]

\* a recv that reads the first response and leaves it in the channel
evaluate_recv_peek(worker, responses) ==
    IF responses # <<>>
    THEN {[caller |-> "returned", responses |-> responses,
           result |-> Some(Head(responses))]}
    ELSE IF worker = "dead"
    THEN {[caller |-> "panic", responses |-> responses, result |-> None]}
    ELSE {}

\* self.rx.recv().expect("rx failure"): a response waiting is returned;
\* with none and the sender dropped recv fails and expect panics; with
\* none and the sender alive recv blocks (no outcome)
evaluate_recv(worker, responses) ==
    IF responses # <<>>
    THEN {[caller |-> "returned", responses |-> Tail(responses),
           result |-> Some(Head(responses))]}
    ELSE IF worker = "dead"
    THEN {[caller |-> "panic", responses |-> responses, result |-> None]}
    ELSE {}

InitChannel ==
    /\ EpochIdle
    /\ ProfilesIdle
    /\ LogIdle
    /\ RoperIdle
    /\ WindowIdle
    /\ ev_worker = "running"
    /\ ev_requests = <<>>
    /\ ev_responses = <<>>
    /\ ev_caller = "idle"
    /\ ev_call = NoEvCall

\* evaluate is called: its first line
EvSend ==
    /\ ev_caller = "idle"
    /\ ev_call.n < MaxCalls
    /\ \E genome \in ArgGenomes :
         LET r == evaluate_send(ev_worker, ev_requests, genome)
         IN  /\ ev_caller' = r.caller
             /\ ev_requests' = r.requests
             /\ ev_call' = [n |-> ev_call.n + 1, arg |-> Some(genome),
                            result |-> r.result,
                            dead_at_call |-> ev_worker = "dead"]
    /\ UNCHANGED <<ev_worker, ev_responses>>
    /\ UNCHANGED not_channel

\* the worker's loop body on the next request
EvWork ==
    /\ ev_worker = "running"
    /\ ev_requests # <<>>
    /\ ev_requests' = Tail(ev_requests)
    /\ ev_responses' = Append(ev_responses, evaluate(Head(ev_requests), Target))
    /\ UNCHANGED <<ev_worker, ev_caller, ev_call>>
    /\ UNCHANGED not_channel

\* the worker thread ends: the requests it did not take are dropped with
\* its receiver; the responses it sent stay in their channel
EvWorkerDies ==
    /\ ev_worker = "running"
    /\ ev_worker' = "dead"
    /\ ev_requests' = <<>>
    /\ UNCHANGED <<ev_responses, ev_caller, ev_call>>
    /\ UNCHANGED not_channel

\* evaluate's second line
EvRecv ==
    /\ ev_caller = "sent"
    /\ \E r \in evaluate_recv(ev_worker, ev_responses) :
         /\ ev_caller' = r.caller
         /\ ev_responses' = r.responses
         /\ ev_call' = [ev_call EXCEPT !.result = r.result]
    /\ UNCHANGED <<ev_worker, ev_requests>>
    /\ UNCHANGED not_channel

\* evaluate has returned; its caller goes on to its next call
EvReturn ==
    /\ ev_caller = "returned"
    /\ ev_caller' = "idle"
    /\ UNCHANGED <<ev_worker, ev_requests, ev_responses, ev_call>>
    /\ UNCHANGED not_channel

NextChannel == EvSend \/ EvWork \/ EvWorkerDies \/ EvRecv \/ EvReturn

SpecChannel == InitChannel /\ [][NextChannel]_vars

(***************************************************************************)
(* observation::Window, in the observer's thread: Window::new, then        *)
(* Window::insert for every genome received.  frame[k] of the code is      *)
(* frame[k + 1] here.                                                      *)
(***************************************************************************)
\* the genomes evolve observes: scored by the evaluator
ObservedGenomes ==
    {evaluate([genes |-> g, fitness |-> None], Target) :
        g \in StringsOfLen(1) \cup {Target}}

\* Window::new, its assert passed
WindowNew(window_size) ==
    [frame |-> [k \in 1..window_size |-> None], i |-> 0,
     window_size |-> window_size]

\* the fitnesses of Window::report: those of the filled slots of the frame
\* whose genome has one
RECURSIVE FrameFitnesses(_)
FrameFitnesses(frame) ==
    IF frame = <<>> THEN <<>>
    ELSE (IF Head(frame) # None /\ Head(frame)[1].fitness # None
          THEN <<Head(frame)[1].fitness[1]>>
          ELSE <<>>) \o FrameFitnesses(Tail(frame))

RECURSIVE SumSeq(_)
SumSeq(xs) == IF xs = <<>> THEN 0 ELSE Head(xs) + SumSeq(Tail(xs))

\* Window::report: what it logs, the quotient of two f32 kept as its two
\* terms; over no fitness it is 0.0 / 0.0
report(self) ==
    LET fitnesses == FrameFitnesses(self.frame)
    IN  [fitnesses |-> fitnesses,
         avg_fit   |-> IF fitnesses = <<>> THEN "NaN"
                       ELSE [num |-> SumSeq(fitnesses), den |-> Len(fitnesses)]]

\* an insert that reports every time
insert_reports_each_time(self, thing) ==
    LET i == (self.i + 1) % self.window_size
        w == [self EXCEPT !.i = i, !.frame[i + 1] = Some(thing)]
    IN  [window |-> w, reported |-> Some(report(w))]

\* Window::insert: the Window it leaves and the report it made, if any
insert(self, thing) ==
    LET i == (self.i + 1) % self.window_size
        w == [self EXCEPT !.i = i, !.frame[i + 1] = Some(thing)]
    IN  [window |-> w, reported |-> IF i = 0 THEN Some(report(w)) ELSE None]

InitWindow ==
    /\ EpochIdle
    /\ ProfilesIdle
    /\ LogIdle
    /\ RoperIdle
    /\ ChannelIdle
    /\ \E window_size \in 1..MaxWindow : window = WindowNew(window_size)
    /\ inserted = <<>>
    /\ reports = <<>>

\* the loop body of the observer's thread: window.insert(observable)
Insert ==
    /\ Len(inserted) < MaxInserts
    /\ \E thing \in ObservedGenomes :
         LET r == insert(window, thing)
         IN  /\ window' = r.window
             /\ inserted' = Append(inserted, thing)
             /\ reports' = IF r.reported = None THEN reports
                           ELSE Append(reports,
                                       [at     |-> Len(inserted) + 1,
                                        frame  |-> r.window.frame,
                                        logged |-> r.reported[1]])
    /\ UNCHANGED not_window

NextWindow == Insert

SpecWindow == InitWindow /\ [][NextWindow]_vars

(***************************************************************************)
(* Claims about run and Epoch::evolve.                                     *)
(***************************************************************************)
\* every genome the state holds
Genomes ==
    BagToSet(population)
      \cup {best[i] : i \in DOMAIN best}
      \cup {returned[i] : i \in DOMAIN returned}
      \cup {last.combatants[i] : i \in DOMAIN last.combatants}
      \cup {last.offspring[i] : i \in DOMAIN last.offspring}

\* C1: with tournament_size < num_offspring + 2 run fails at startup: no
\* call of Epoch::evolve is made, no candidate is drawn or evaluated, and
\* the only failure there is is the one of the configuration check.
\* (Stated for the configurations where nothing else is unusual: a
\* population of at least tournament_size >= 1 genomes that are not empty.)
C1_FailsAtStartup ==
    (/\ ~assert_invariants(config)
     /\ config.tournament_size >= 1
     /\ config.pop_size >= config.tournament_size
     /\ config.init_len >= 1) =>
        /\ ~last.called
        /\ last.combatants = <<>>
        /\ pc \in {"start", "loop", "panic"}
        /\ pc = "panic" => panic_at = "assert_invariants"

\* C2: when run returns Some(champ), champ's genes are the target: run
\* stops only on a best whose cached fitness is 0, and a cached fitness of
\* 0 is held only by a genome whose genes are at edit distance 0 of the
\* target, that is, equal to it.
C2_ReturnsTarget ==
    /\ pc = "done" =>
         /\ returned # None
         /\ returned = best
         /\ returned[1].fitness = Some(0)
         /\ returned[1].genes = config.target
    /\ returned # None => pc = "done"
    /\ \A g \in Genomes :
         g.fitness = Some(0) =>
            /\ levenshtein(g.genes, config.target) = 0
            /\ g.genes = config.target

\* run returned a champion that a second generation found
C2_Witness ==
    /\ pc = "done"
    /\ iteration > 1
    /\ returned # None

\* the call of Epoch::evolve that C4 is about was made
C4_Case ==
    /\ last.called
    /\ config.tournament_size = 5
    /\ config.num_offspring = 2
    /\ last.pop_in >= 5

\* C4 as stated: with tournament_size = 5 and num_offspring = 2, exactly 2
\* combatants are requeued as bystanders.
C4_TwoBystanders == C4_Case => Len(last.bystanders) = 2

\* C4 amended: with tournament_size = 5 and num_offspring = 2 and at least
\* 5 candidates, exactly 1 combatant (tournament_size - (num_offspring + 2))
\* is requeued as a bystander: the one ranked third, as it was scored, and
\* it is in the population the call returns.
C4_OneBystander ==
    C4_Case =>
        /\ Len(last.bystanders) = 1
        /\ Len(last.combatants) = 5
        /\ last.bystanders[1] = last.combatants[3]
        /\ last.bystanders[1].fitness =
              Some(levenshtein(last.bystanders[1].genes, config.target))
        /\ pc = "evolved" => BagIn(last.bystanders[1], population)

\* a call with tournament_size = 5, num_offspring = 2 returned
C4_Witness ==
    /\ C4_Case
    /\ pc = "evolved"
    /\ Len(last.bystanders) = 1

\* C5: a call of Epoch::evolve with a valid configuration and at least
\* tournament_size candidates puts back exactly 2 parents, unchanged, and
\* adds exactly num_offspring children, whatever num_offspring is.
C5_NumOffspringChildren ==
    (/\ last.called
     /\ assert_invariants(config)
     /\ last.pop_in >= config.tournament_size
     /\ pc = "evolved") =>
        /\ Len(last.parents) = 2
        /\ \A i \in 1..2 : BagIn(last.parents[i], population)
        /\ Len(last.offspring) = config.num_offspring

\* C6: a call of Epoch::evolve on a population of fewer than
\* tournament_size candidates completes: it does not panic.  (Stated for
\* the valid configurations with genomes that are not empty, where nothing
\* but the small population is unusual.)
C6_SmallPopulationCompletes ==
    (/\ last.called
     /\ assert_invariants(config)
     /\ config.init_len >= 1
     /\ last.pop_in < config.tournament_size) =>
        pc # "panic"

\* C7: best is replaced only when there is none or the new one is strictly
\* fitter, so its fitness never increases; and after each generation it is
\* the least fitness of all the combatants evaluated so far.
C7_BestMonotone ==
    /\ [][/\ best' # best =>
               /\ best' # None
               /\ best'[1].fitness # None
               /\ \/ best = None
                  \/ best'[1].fitness[1] < best[1].fitness[1]
          /\ best # None =>
               /\ best' # None
               /\ best'[1].fitness[1] <= best[1].fitness[1]]_vars
    /\ [](pc \in {"evolved", "loop", "done"} /\ iteration > 0 =>
               /\ best # None
               /\ best[1].fitness # None
               /\ best[1].fitness = min_seen)

\* a later generation whose top-ranked combatant is less fit than best
C7_Witness ==
    /\ pc = "evolved"
    /\ iteration > 1
    /\ best # None
    /\ last.combatants # <<>>
    /\ best[1].fitness[1] < last.combatants[1].fitness[1]

\* C8: crossover returns exactly 2 children whose lengths add up to the
\* lengths of the two parents, whatever the split points.
C8_CrossoverConservesLength ==
    last.offspring # <<>> =>
        /\ Len(last.offspring) = 2
        /\ Len(last.parents) = 2
        /\ Len(last.offspring[1].genes) + Len(last.offspring[2].genes)
             = Len(last.parents[1].genes) + Len(last.parents[2].genes)
        /\ \A i \in 1..2 : last.offspring[i].fitness = None

\* a crossover whose children are not as long as their parents
C8_Witness ==
    /\ last.offspring # <<>>
    /\ Len(last.parents[1].genes) >= 2
    /\ Len(last.parents[2].genes) >= 2
    /\ Len(last.offspring[1].genes) # Len(last.parents[1].genes)
    /\ Len(last.offspring[1].genes) # Len(last.offspring[2].genes)

(***************************************************************************)
(* Claims about Profile.                                                   *)
(***************************************************************************)
\* absorbing the collation of a whole run sequence into p, and absorbing
\* the collations of its first k runs and of the rest, one after the other
AbsorbWhole(p, runs) == absorb(p, collate(runs))
AbsorbSplit(p, runs, k) ==
    absorb(absorb(p, collate(SubSeq(runs, 1, k))),
           collate(SubSeq(runs, k + 1, Len(runs))))

\* C9: absorb is associative along the runs: for every aggregate p and
\* every split of a run sequence into xs then ys, absorbing collate(xs ++
\* ys) gives the aggregate that absorbing collate(xs) then collate(ys)
\* gives, field by field and flag included.
C9_AbsorbAssociative ==
    \A p \in {agg, other} :
        \A k \in 0..Len(batch) :
            AbsorbWhole(p, batch) = AbsorbSplit(p, batch, k)

\* an aggregate that absorbed a run, and two runs that differ to split
C9_Witness ==
    /\ Len(agg.paths) >= 1
    /\ Len(batch) >= 2
    /\ batch[1] # batch[2]

\* the per-run sequences of p have one entry per run of runs, the entry i
\* of each being what freezing the Profiler runs[i] gives
Aligned(p, runs) ==
    /\ Len(p.paths) = Len(runs)
    /\ Len(p.cpu_errors) = Len(runs)
    /\ Len(p.emulation_times) = Len(runs)
    /\ Len(p.registers) = Len(runs)
    /\ Len(p.gadgets_executed) = Len(runs)
    /\ Len(p.write_logs) = Len(runs)
    /\ \A i \in 1..Len(runs) :
         /\ p.paths[i] = runs[i].block_log
         /\ p.cpu_errors[i] = runs[i].cpu_error
         /\ p.emulation_times[i] = runs[i].emulation_time
         /\ p.registers[i] =
              RegisterStateNew(runs[i].registers, runs[i].written_memory)
         /\ p.gadgets_executed[i] = {runs[i].gadget_log[j] :
                                        j \in DOMAIN runs[i].gadget_log}
         /\ p.write_logs[i] = runs[i].write_log

\* C10: after any sequence of From, collate and absorb, the per-run
\* sequences of every aggregate have the same length, and entry i of each
\* describes the same run, the runs being in the order they were collated
\* and absorbed.
C10_RunsAligned ==
    /\ Aligned(agg, origin.agg)
    /\ Aligned(other, origin.other)
    /\ fresh # None => Aligned(fresh[1], origin.fresh)

\* an aggregate that absorbed three runs, not all alike
C10_Witness ==
    /\ Len(origin.agg) >= 3
    /\ origin.agg[1] # origin.agg[2]
    /\ origin.agg[2] # origin.agg[3]
    /\ origin.other = <<>>
    /\ fresh = None

\* acc.absorb(Profile::from(p)) for each Profiler p of profilers, in order
RECURSIVE AbsorbEach(_, _)
AbsorbEach(acc, profilers) ==
    IF profilers = <<>> THEN acc
    ELSE AbsorbEach(absorb(acc, ProfileFrom(Head(profilers))), Tail(profilers))

\* C11: for every list of per-run logs, collate(list) is the aggregate
\* obtained by starting from the empty aggregate, Profile::default(), and
\* absorbing the singleton From<Profiler> profile of each log, in order.
C11_CollateIsAbsorbEach ==
    batch # <<>> => collate(batch) = AbsorbEach(ProfileDefault, batch)

(***************************************************************************)
(* Claims about one run's Profiler and its freezing.                       *)
(***************************************************************************)
\* C12: whatever the interleaving of the block, gadget and write appends
\* made before the freeze, the Profile holds every appended block and every
\* appended write once, in the order of the appends to their queue, its
\* gadget set is the set of the appended gadget addresses, and the three
\* queues are empty after the drain.
C12_FreezeFifo ==
    log_pc = "frozen" =>
        /\ run_profile[1].paths = <<appended.blocks>>
        /\ run_profile[1].write_logs = <<appended.writes>>
        /\ run_profile[1].gadgets_executed =
              <<{appended.gadgets[i] : i \in DOMAIN appended.gadgets}>>
        /\ profiler.block_log = <<>>
        /\ profiler.gadget_log = <<>>
        /\ profiler.write_log = <<>>

\* a frozen run whose blocks and writes each came in an order that shows,
\* appends to different queues having interleaved
C12_Witness ==
    /\ log_pc = "frozen"
    /\ Len(appended.blocks) >= 2
    /\ appended.blocks[1] # appended.blocks[2]
    /\ Len(appended.writes) >= 1
    /\ Len(appended.gadgets) >= 1

(***************************************************************************)
(* Claims about the analytics of an aggregate.                             *)
(***************************************************************************)
\* the byte addresses of the image, and those in writeable segments
ImageAddresses ==
    UNION {seg.aligned_start..(seg.aligned_start + seg.size - 1) :
               seg \in StaticMemoryImage}
WriteableAddresses ==
    UNION {seg.aligned_start..(seg.aligned_start + seg.size - 1) :
               seg \in {x \in StaticMemoryImage : x.writeable}}

\* the addresses some write-log entry of some run of p covers
WrittenUnion(p) ==
    {a \in ImageAddresses :
        \E i \in DOMAIN p.write_logs :
            \E j \in DOMAIN p.write_logs[i] :
                /\ p.write_logs[i][j].address <= a
                /\ a < p.write_logs[i][j].address
                         + p.write_logs[i][j].num_bytes_written}

C14_CachedPreserved ==
    last_eval.call = "eval_pipeline" =>
        \A i \in DOMAIN last_eval.inbound :
            (/\ last_eval.inbound[i].profile # None
             /\ last_eval.inbound[i].fitness # None) =>
                /\ \A k \in DOMAIN last_eval.executed :
                       last_eval.executed[k].id # last_eval.inbound[i].id
                /\ \E k \in DOMAIN last_eval.outbound :
                       last_eval.outbound[k] = last_eval.inbound[i]

\* C15: in every call of eval_pipeline, every creature of the batch is
\* scored against the sketch as it was before the call: the sketch is not
\* modified until all are scored.
C15_ScoredAgainstSnapshot ==
    last_eval.call = "eval_pipeline" =>
        \A k \in DOMAIN last_eval.seen :
            last_eval.seen[k] = last_eval.sketch_before

\* C16: no call of evaluate or eval_pipeline hands the hatchery a creature
\* that already carries a profile.
C16_NeverReexecuted ==
    \A k \in DOMAIN last_eval.executed :
        last_eval.executed[k].profile = None

(***************************************************************************)
(* Claims about evaluation::Evaluator.                                     *)
(***************************************************************************)
\* C17: a call of evaluate made when the worker thread has terminated
\* panics, and no call ever returns a genome the worker did not send: what
\* it returns is its argument as the worker scored it.
C17_DeadWorkerIsFatal ==
    /\ (ev_call.n > 0 /\ ev_call.dead_at_call) =>
           (ev_caller = "panic" /\ ev_call.result = None)
    /\ (ev_worker = "dead" /\ ev_caller = "sent" /\ ev_responses = <<>>) =>
           \A r \in evaluate_recv(ev_worker, ev_responses) : r.caller = "panic"
    /\ ev_call.result # None =>
           ev_call.result = Some(evaluate(ev_call.arg[1], Target))

\* a second call of evaluate, made after the worker ended, has panicked
C17_Witness ==
    /\ ev_call.n = 2
    /\ ev_call.dead_at_call
    /\ ev_caller = "panic"
    /\ ev_call.arg[1].fitness = None

FrameBag(frame) ==
    SeqToBag([k \in 1..Len(frame) |-> frame[k][1]])
InsertedBag(from, to) ==
    SeqToBag(SubSeq(inserted, from, to))

\* C19: for every window_size > 0 and every sequence of inserts, a report
\* is made on exactly the insertions whose count is a positive multiple of
\* window_size, and at each report every slot of the frame is filled and
\* the frame holds the window_size genomes inserted last.
C19_ReportsOnWrap ==
    window # None =>
        /\ Len(reports) = Len(inserted) \div window.window_size
        /\ \A r \in DOMAIN reports :
              /\ reports[r].at = r * window.window_size
              /\ \A k \in DOMAIN reports[r].frame : reports[r].frame[k] # None
              /\ FrameBag(reports[r].frame) =
                    InsertedBag(reports[r].at - window.window_size + 1,
                                reports[r].at)

\* a window of 3 that was filled, reported, was overwritten and reported
\* again, over genomes not all alike
C19_Witness ==
    /\ window # None
    /\ window.window_size = 3
    /\ Len(reports) = 2
    /\ reports[1].frame # reports[2].frame
    /\ reports[2].frame[1] # reports[2].frame[2]

\* every report of the Window was made over at least one fitness value
ReportsNeverEmpty ==
    \A r \in DOMAIN reports : reports[r].logged.fitnesses # <<>>

\* C20: no average is computed silently over zero elements: Window::report
\* never runs over an empty list of fitness values, and
\* avg_emulation_micros of an aggregate of zero runs raises an
\* unrecoverable error instead of returning the quotient by a zero count.
C20_NoSilentAverage ==
    /\ ReportsNeverEmpty
    /\ \A p \in {agg, other} :
          Len(p.emulation_times) = 0 =>
              avg_emulation_micros(p).outcome = "panic"

(***************************************************************************)
(* Claims about runs that ended on a CPU fault.                            *)
(***************************************************************************)
\* C21: a run with a captured CPU fault is frozen into the aggregate like
\* any other: collate of a batch of faulted and unfaulted runs has one
\* entry per run in every per-run sequence, cpu_errors[i] is the fault of
\* run i when it faulted and None when it did not, and the path, gadgets,
\* registers and writes of every run are kept.
C21_FaultedRunsKept ==
    /\ Aligned(collate(batch), batch)
    /\ \A i \in DOMAIN batch :
          /\ batch[i].cpu_error # None =>
                collate(batch).cpu_errors[i] = batch[i].cpu_error
          /\ batch[i].cpu_error = None => collate(batch).cpu_errors[i] = None
    /\ fresh # None =>
          Len(fresh[1].cpu_errors) = Len(origin.fresh)

\* a Profile collated from three runs, a faulted one that logged gadgets
\* and writes standing between two that did not fault
C21_Witness ==
    /\ fresh # None
    /\ Len(origin.fresh) = 3
    /\ origin.fresh[1].cpu_error = None
    /\ origin.fresh[2].cpu_error # None
    /\ origin.fresh[2].gadget_log # <<>>
    /\ origin.fresh[2].write_log # <<>>
    /\ origin.fresh[3].cpu_error = None
    /\ fresh[1].cpu_errors[2] # None

(***************************************************************************)
(* Further claims about run and Epoch::evolve.                             *)
(***************************************************************************)
\* C22: scoring is memoized: evaluate and score_mut return a genome that
\* has a cached fitness with genes and fitness unchanged, so that
\* evaluate(evaluate(g)) = evaluate(g); every child mate returns has no
\* cached fitness; and every cached fitness of a reachable state is the
\* edit distance from the genome's genes, as they are, to the target.
C22_ScoringMemoized ==
    /\ \A g \in Genomes \cup {last.combatants[i] : i \in DOMAIN last.combatants} :
          /\ evaluate(evaluate(g, config.target), config.target)
                = evaluate(g, config.target)
          /\ score_mut(score_mut(g, config).genome, config)
                = score_mut(g, config)
          /\ g.fitness # None =>
                /\ evaluate(g, config.target) = g
                /\ score_mut(g, config).genome = g
                /\ score_mut(g, config).fitness = g.fitness[1]
                /\ g.fitness[1] = levenshtein(g.genes, config.target)
    /\ \A i \in DOMAIN last.offspring : last.offspring[i].fitness = None

\* after a second generation, a population of scored genomes and of
\* unscored children, one of them mutated away from what crossover gave
C22_Witness ==
    /\ pc = "evolved"
    /\ iteration = 2
    /\ \E g \in BagToSet(population) : g.fitness # None /\ g.fitness[1] > 0
    /\ \E i \in DOMAIN last.offspring :
          /\ last.offspring[i].fitness = None
          /\ \A split_m \in 0..(Len(last.parents[1].genes) - 1),
                split_f \in 0..(Len(last.parents[2].genes) - 1) :
                last.offspring[i] #
                  crossover(last.parents[1], last.parents[2], split_m, split_f)[i]

\* the call of Epoch::evolve that C23 is about was made
C23_Case ==
    /\ last.called
    /\ assert_invariants(config)
    /\ last.pop_in >= config.tournament_size

\* C23: a call of Epoch::evolve with a valid configuration and at least
\* tournament_size candidates splits the ranked combatants into the
\* num_offspring culled, the 2 parents and the tournament_size -
\* (num_offspring + 2) bystanders; no culled combatant is strictly fitter
\* than a bystander or a parent, and no bystander is strictly fitter than
\* a parent.
C23_RankedPartition ==
    C23_Case =>
        /\ Len(last.combatants) = config.tournament_size
        /\ Len(last.culled) = config.num_offspring
        /\ Len(last.parents) = 2
        /\ Len(last.bystanders)
              = config.tournament_size - (config.num_offspring + 2)
        /\ SeqToBag(last.culled) (+) SeqToBag(last.bystanders)
              (+) SeqToBag(last.parents) = SeqToBag(last.combatants)
        /\ \A i \in DOMAIN last.culled :
              /\ \A j \in DOMAIN last.bystanders :
                    ~fitter_than(last.culled[i], last.bystanders[j])
              /\ \A j \in DOMAIN last.parents :
                    ~fitter_than(last.culled[i], last.parents[j])
        /\ \A i \in DOMAIN last.bystanders, j \in DOMAIN last.parents :
              ~fitter_than(last.bystanders[i], last.parents[j])
        /\ \A i \in DOMAIN last.combatants : last.combatants[i].fitness # None

\* a call returned that culled a combatant less fit than a bystander and
\* requeued a bystander less fit than a parent
C23_Witness ==
    /\ C23_Case
    /\ pc = "evolved"
    /\ last.culled # <<>>
    /\ \E i \in DOMAIN last.bystanders :
          fitter_than(last.bystanders[i], last.culled[1])
    /\ \E i \in DOMAIN last.bystanders :
          fitter_than(last.parents[1], last.bystanders[i])

(***************************************************************************)
(* Further claims about evaluation::Evaluator.                             *)
(***************************************************************************)
\* C24: the genome evaluate(g) returns is the response to that very
\* request: it has the genes of g and a fitness; at most one request or
\* response is in flight at a time, it belongs to the call in progress,
\* and none is left in a channel when no call is in progress.
C24_OwnResponse ==
    /\ Len(ev_requests) + Len(ev_responses) <= 1
    /\ ev_caller # "sent" => (ev_requests = <<>> /\ ev_responses = <<>>)
    /\ \A i \in DOMAIN ev_requests : ev_requests[i] = ev_call.arg[1]
    /\ \A i \in DOMAIN ev_responses :
          /\ ev_responses[i].genes = ev_call.arg[1].genes
          /\ ev_responses[i].fitness # None
    /\ ev_caller = "returned" =>
          /\ ev_call.result # None
          /\ ev_call.result[1].genes = ev_call.arg[1].genes
          /\ ev_call.result[1].fitness # None
          /\ ev_call.arg[1].fitness # None =>
                ev_call.result[1] = ev_call.arg[1]

\* a second call of evaluate has returned its unscored argument, scored
C24_Witness ==
    /\ ev_call.n = 2
    /\ ev_caller = "returned"
    /\ ev_call.arg[1].fitness = None
    /\ ev_call.arg[1].genes # <<>>
    /\ ev_call.result[1].genes = ev_call.arg[1].genes
    /\ ev_call.result[1].fitness # None

(***************************************************************************)
(* Further claims about the roper Evaluator.                               *)
(***************************************************************************)
\* C25: every candidate eval_pipeline returns carries a profile and a
\* fitness, for each of the three fitness functions and every batch: the
\* call returns, and returns as many candidates as it was given, each with
\* a profile and a fitness.
C25_AllScored ==
    last_eval.call = "eval_pipeline" =>
        /\ ~last_eval.panicked
        /\ Len(last_eval.outbound) = Len(last_eval.inbound)
        /\ \A k \in DOMAIN last_eval.outbound :
              /\ last_eval.outbound[k].profile # None
              /\ last_eval.outbound[k].fitness # None

(***************************************************************************)
(* Claims about the population Epoch::evolve returns.                      *)
(***************************************************************************)
\* C26: after every call of Epoch::evolve with a valid configuration and
\* at least tournament_size candidates, the population holds a candidate
\* whose cached fitness is the fitness of best: culling never removes the
\* best fitness found so far, ties included.
C26_Elitism ==
    (/\ C23_Case
     /\ pc \in {"evolved", "loop", "done"}) =>
        /\ best # None
        /\ \E g \in BagToSet(population) : g.fitness = best[1].fitness

\* a second call returned that culled a combatant as fit as best, with a
\* less fit candidate left in the population
C26_Witness ==
    /\ C23_Case
    /\ pc = "evolved"
    /\ iteration = 2
    /\ last.culled # <<>>
    /\ last.culled[1].fitness = best[1].fitness
    /\ \E g \in BagToSet(population) :
          g.fitness # None /\ g.fitness # best[1].fitness

\* C27: with init_len >= 1 every candidate of every reachable population
\* has at least one gene: the children of a call of Epoch::evolve are not
\* empty and have, together, as many genes as their parents, so that the
\* % self.len() of crossover and mutate never divides by zero.
C27_NeverEmpty ==
    config.init_len >= 1 =>
        /\ \A g \in Genomes : Len(g.genes) >= 1
        /\ panic_at # "crossover"
        /\ Len(last.offspring) = 2 =>
              Len(last.offspring[1].genes) + Len(last.offspring[2].genes)
                = Len(last.parents[1].genes) + Len(last.parents[2].genes)
        /\ (pc = "loop" /\ iteration < MaxIter) =>
              \A t \in Tournaments(config, best, population) :
                  t.panic = "" =>
                      \A offspring \in Matings(t.parents[1], t.parents[2]) :
                          \A i \in DOMAIN offspring : Len(offspring[i].genes) >= 1

\* a second call returned a child of one gene, bred from a mother of two
\* or more, and a mutated child
C27_Witness ==
    /\ config.init_len >= 1
    /\ pc = "evolved"
    /\ iteration = 2
    /\ Len(last.parents[1].genes) >= 2
    /\ \E i \in DOMAIN last.offspring : Len(last.offspring[i].genes) = 1
    /\ \E i \in DOMAIN last.offspring :
          \A split_m \in 0..(Len(last.parents[1].genes) - 1),
             split_f \in 0..(Len(last.parents[2].genes) - 1) :
             last.offspring[i] #
               crossover(last.parents[1], last.parents[2], split_m, split_f)[i]

\* C28: a call of Epoch::evolve with a valid configuration and at least
\* tournament_size candidates returns a population of as many candidates
\* as it was given, and an iteration advanced by exactly 1.
C28_SizeConserved ==
    [][(/\ pc = "loop"
        /\ pc' = "evolved"
        /\ assert_invariants(config)
        /\ BagCardinality(population) >= config.tournament_size) =>
            /\ BagCardinality(population') = BagCardinality(population)
            /\ iteration' = iteration + 1]_vars

==========================================================================
